---------------------------- MODULE Spec2Model ----------------------------
(***************************************************************************)
(* A model of hugs/imtools/rmedian.py (_ring, rmedian) and of the          *)
(* orchestration in hugs/tasks/stamps.py (get_candy_stamps, fit_candy).    *)
(*                                                                         *)
(* Radii are non-negative rationals k/Scale held as the integer k; the      *)
(* distance grid np.sqrt(x**2 + x[:,None]**2) is held by its squares, and  *)
(* a comparison of a distance with a radius is made exactly on the         *)
(* squares.  scipy.ndimage.median_filter is modelled by what it does with  *)
(* the arguments rmedian passes: the footprint-shape check, the rank       *)
(* filter_size // 2, the default mode 'reflect'.  sersic_fit and the       *)
(* archive query are external: their answers are nondeterministic.         *)
(***************************************************************************)
EXTENDS Integers, Sequences, FiniteSets, TLC

(* ------------------------------ bounds -------------------------------- *)

\* radii are multiples of 1/Scale pixel
Scale == 2
\* largest radius, in pixels, passed to rmedian
MaxRad == 2
\* largest radius, in pixels, passed to _ring when it is called directly
MaxRingRad == 5
\* an input array holds at most MaxPix pixels
MaxPix == 4
\* pixel values are 0..MaxVal
MaxVal == 1
\* a fit's r_e is 1..MaxRe and its r_e_err is 0..MaxErr
MaxRe == 2
MaxErr == 1
\* the fitter answers with one of the Sersic solutions 0..MaxSol
MaxSol == 1
\* the catalog passed to get_candy_stamps holds 0..MaxCat rows
MaxCat == 1

(* ------------------------- rmedian.py: _ring -------------------------- *)

None == "None"

\* line 29: the condition of the assert
RadiiOKAlways(ri, ro) == TRUE
RadiiOK(ri, ro) == ro >= ri

\* int(r_outer): truncation toward zero of the rational ro/Scale
IntTrunc(ro) == IF ro >= 0 THEN ro \div Scale ELSE -((-ro) \div Scale)

\* line 30: x = np.arange(-int(r_outer), int(r_outer)+1), as a sequence
ArangeShort(ro) == [i \in 1..(2 * IntTrunc(ro)) |-> i - 1 - IntTrunc(ro)]
Arange(ro) == [i \in 1..(2 * IntTrunc(ro) + 1) |-> i - 1 - IntTrunc(ro)]

\* line 31: r = np.sqrt(x**2 + x[:,None]**2), held as r**2; r[i][j] pairs
\* the column vector x[:,None] (index i) with the row vector x (index j)
DistGrid(x) == [i \in 1..Len(x) |-> [j \in 1..Len(x) |-> x[j] * x[j] + x[i] * x[i]]]

\* r > r_inner, for r >= 0 given by its square d2 and the radius ri/Scale
GtRadius(d2, ri) == ri < 0 \/ Scale * Scale * d2 > ri * ri
\* r <= r_outer
LeRadius(d2, ro) == ro >= 0 /\ Scale * Scale * d2 <= ro * ro

\* line 32: annulus = (r>r_inner) & (r<=r_outer), one cell
InAnnulusClosed(d2, ri, ro) == (GtRadius(d2, ri) \/ Scale * Scale * d2 = ri * ri) /\ LeRadius(d2, ro)
InAnnulusOuterOpen(d2, ri, ro) == GtRadius(d2, ri) /\ LeRadius(d2, ro) /\ Scale * Scale * d2 # ro * ro
InAnnulus(d2, ri, ro) == GtRadius(d2, ri) /\ LeRadius(d2, ro)

\* lines 33-37: invert, r[annulus] = 1, r[~annulus] = 0, astype(dtype)
Footprint(r, ri, ro, inv) ==
    [i \in 1..Len(r) |-> [j \in 1..Len(r) |->
        IF InAnnulus(r[i][j], ri, ro) # inv THEN 1 ELSE 0]]

\* lines 29-38: the footprint _ring returns when its assert passes
Ring(ri, ro, inv) == Footprint(DistGrid(Arange(ro)), ri, ro, inv)

(* ------------- rmedian.py: rmedian, scipy's median_filter ------------- *)

\* An array argument: ndim dimensions, of which the last two are h and w (a
\* 1-d array has shape (w,), a 3-d one (1,h,w)); pix[y][x] are its values.
PixVals == 0..MaxVal
Shapes == {s \in (1..MaxPix) \X (1..MaxPix) : s[1] * s[2] <= MaxPix}
Grids(h, w) == [1..h -> [1..w -> PixVals]]
Images == UNION {{[ndim |-> 2, h |-> s[1], w |-> s[2], pix |-> g] : g \in Grids(s[1], s[2])} : s \in Shapes}
NonImages == UNION {{[ndim |-> d, h |-> 1, w |-> w, pix |-> g] : g \in Grids(1, w), d \in {1, 3}} : w \in 1..MaxPix}
NoData == [ndim |-> 0, h |-> 0, w |-> 0, pix |-> << >>]

\* median_filter: len(fshape) != input.ndim raises RuntimeError; the
\* footprint _ring builds is always 2-d
FootprintShapeAny(nd) == TRUE
FootprintShapeOK(nd) == nd = 2

\* median_filter: filter_size = numpy.where(footprint, 1, 0).sum()
RECURSIVE SumSeq(_)
SumSeq(s) == IF s = << >> THEN 0 ELSE Head(s) + SumSeq(Tail(s))
FilterSize(f) == SumSeq([i \in 1..Len(f) |-> SumSeq([j \in 1..Len(f) |-> IF f[i][j] # 0 THEN 1 ELSE 0])])

\* median_filter: rank = filter_size // 2
MedianRankLower(size) == IF size = 0 THEN 0 ELSE (size - 1) \div 2
MedianRank(size) == size \div 2

\* median_filter's default mode='reflect' (d c b a | a b c d | d c b a): the
\* 0-based index inside 0..len-1 that supplies position cc
Reflect(cc, len) ==
    IF len <= 1 THEN 0
    ELSE LET m == cc % (2 * len) IN IF m >= len THEN 2 * len - 1 - m ELSE m

\* the value the filter reads at 0-based position (cy, cx) of the extended image
ExtendConstant(d, cy, cx) ==
    IF cy \in 0..(d.h - 1) /\ cx \in 0..(d.w - 1) THEN d.pix[cy + 1][cx + 1] ELSE 0
Extend(d, cy, cx) == d.pix[Reflect(cy, d.h) + 1][Reflect(cx, d.w) + 1]

\* the footprint's cells in row-major order, and those that select a pixel
CellSeq(n) == [k \in 1..(n * n) |-> <<((k - 1) \div n) + 1, ((k - 1) % n) + 1>>]
SelectedAll(f) == CellSeq(Len(f))
Selected(f) == SelectSeq(CellSeq(Len(f)), LAMBDA c : f[c[1]][c[2]] # 0)

\* the values under the footprint centred at pixel (y, x) (1-based); the
\* footprint's centre cell is Len(f) \div 2 + 1 (origin 0)
Window(d, f, y, x) ==
    LET c0 == Len(f) \div 2 + 1
        sel == Selected(f)
    IN [k \in 1..Len(sel) |-> Extend(d, (y - 1) + (sel[k][1] - c0), (x - 1) + (sel[k][2] - c0))]

\* ascending sort (the rank filter selects the rank-th smallest value)
RECURSIVE Insert(_, _)
Insert(v, s) ==
    IF s = << >> THEN <<v>>
    ELSE IF v <= Head(s) THEN <<v>> \o s ELSE <<Head(s)>> \o Insert(v, Tail(s))
RECURSIVE SortAsc(_)
SortAsc(s) == IF s = << >> THEN << >> ELSE Insert(Head(s), SortAsc(Tail(s)))

\* median_filter(data, footprint=fp) when its checks pass
MedianFilter(d, f) ==
    [y \in 1..d.h |-> [x \in 1..d.w |->
        SortAsc(Window(d, f, y, x))[MedianRank(FilterSize(f)) + 1]]]

(* --------------------------- the state ------------------------------- *)

VARIABLES
    entry,      \* the function called: "_ring" or "rmedian"
    data,       \* rmedian's array argument
    r_inner,    \* in 1/Scale pixels
    r_outer,    \* in 1/Scale pixels
    invert,     \* _ring's invert (rmedian passes it through **kwargs)
    pc,         \* "ring", "filter", "return", "done", "raised", "idle"
    fp,         \* the footprint _ring returned, << >> before
    out,        \* filtered_data, << >> before
    err,        \* the exception raised, None if none
    log,        \* the computations performed so far, in order
    op,         \* stamps.py: the function called, "get_candy_stamps" or "fit_candy"
    spc,        \* stamps.py: the position in that function
    serr,       \* stamps.py: the exception raised, None if none
    label,      \* get_candy_stamps: label, None if omitted
    outdir,     \* get_candy_stamps: outdir, << >> if None, <<path>> otherwise
    rundir,     \* get_candy_stamps: rundir, << >> before it is derived
    ncat,       \* get_candy_stamps: len(cat)
    dirs,       \* the directories utils.mkdir_if_needed has made
    listing,    \* the files in rundir
    files,      \* fit_candy: files, the bands of the candidate's stamp files
    idx,        \* fit_candy: the index of the running for loop (1-based)
    fits,       \* fit_candy: fits
    r_e_err,    \* fit_candy: r_e_err, each quotient as <<r_e_err, r_e>>
    mask_files, \* fit_candy: mask_files, the photo masks on disk (<< >> once removed)
    best_idx,   \* fit_candy: best_idx (1-based), 0 before it is set
    results,    \* fit_candy: the bands whose columns the results table holds
    calls       \* the calls of sersic_fit made so far, in order

ringVars == <<entry, data, r_inner, r_outer, invert, pc, fp, out, err, log>>
gcsVars == <<label, outdir, rundir, ncat, dirs, listing>>
fitVars == <<files, idx, fits, r_e_err, mask_files, best_idx, results, calls>>
stampVars == <<op, spc, serr, label, outdir, rundir, ncat, dirs, listing,
               files, idx, fits, r_e_err, mask_files, best_idx, results, calls>>

AssertionError == "AssertionError: must have r_outer >= r_inner"
ShapeRuntimeError == "RuntimeError: filter footprint array has incorrect shape."
RankRuntimeError == "RuntimeError: rank not within filter footprint size"

InitRing ==
    /\ entry \in {"_ring", "rmedian"}
    /\ invert \in BOOLEAN
    /\ IF entry = "_ring"
       THEN /\ data = NoData
            /\ r_inner \in 0..(MaxRingRad * Scale)
            /\ r_outer \in 0..(MaxRingRad * Scale)
       ELSE /\ data \in Images \cup NonImages
            /\ r_inner \in 0..(MaxRad * Scale)
            /\ r_outer \in 0..(MaxRad * Scale)
    /\ pc = "ring"
    /\ fp = << >>
    /\ out = << >>
    /\ err = None
    /\ log = << >>

\* _ring, lines 29-38 (called from rmedian at line 58, or directly)
RingCall ==
    /\ pc = "ring"
    /\ IF ~ RadiiOK(r_inner, r_outer)
       THEN /\ pc' = "raised"
            /\ err' = AssertionError
            /\ UNCHANGED <<fp, log>>
       ELSE /\ fp' = Ring(r_inner, r_outer, invert)
            /\ log' = log \o <<"grid", "footprint">>
            /\ pc' = IF entry = "_ring" THEN "return" ELSE "filter"
            /\ err' = err
    /\ UNCHANGED <<entry, data, r_inner, r_outer, invert, out>>
    /\ UNCHANGED stampVars

\* rmedian line 59: filtered_data = median_filter(data, footprint=fp)
MedianFilterCall ==
    /\ pc = "filter"
    /\ IF ~ FootprintShapeOK(data.ndim)
       THEN /\ pc' = "raised"
            /\ err' = ShapeRuntimeError
            /\ log' = Append(log, "median_filter")
            /\ out' = out
       ELSE IF MedianRank(FilterSize(fp)) >= FilterSize(fp)
       THEN /\ pc' = "raised"
            /\ err' = RankRuntimeError
            /\ log' = Append(log, "median_filter")
            /\ out' = out
       ELSE /\ out' = MedianFilter(data, fp)
            /\ log' = log \o <<"median_filter", "filtered">>
            /\ pc' = "return"
            /\ err' = err
    /\ UNCHANGED <<entry, data, r_inner, r_outer, invert, fp>>
    /\ UNCHANGED stampVars

\* _ring line 38 (return fp), rmedian line 60 (return filtered_data)
Return ==
    /\ pc = "return"
    /\ pc' = "done"
    /\ UNCHANGED <<entry, data, r_inner, r_outer, invert, fp, out, err, log>>
    /\ UNCHANGED stampVars

(* ------------------ stamps.py: get_candy_stamps ----------------------- *)

\* a path is the sequence of its components; os.path.join(a, b)
Join(a, b) == Append(a, b)

\* line 36: label = time.strftime("%Y%m%d-%H%M%S")
TimeLabel == "20261103-142000"
\* line 37: 'stamps_'+label
StampsLabel(l) == IF l = TimeLabel THEN "stamps_20261103-142000" ELSE "stamps_run"

\* line 43: os.path.join(utils.io, 'stamps')
DefaultOutdir == Join(<<"utils.io">>, "stamps")

\* line 17: bands='GRI'; line 62: bands[i].lower()
Bands == <<"G", "R", "I">>
Lower(b) == CASE b = "G" -> "g" [] b = "R" -> "r" [] b = "I" -> "i"

GcsIdle ==
    /\ label = None /\ outdir = << >> /\ rundir = << >>
    /\ ncat = 0 /\ dirs = {} /\ listing = {}

FitIdle ==
    /\ files = << >> /\ idx = 0 /\ fits = << >> /\ r_e_err = << >>
    /\ mask_files = << >> /\ best_idx = 0 /\ results = << >> /\ calls = << >>

\* lines 34-39: rundir is derived from outdir as passed
GcsRundir ==
    /\ op = "get_candy_stamps" /\ spc = "rundir"
    /\ IF outdir = << >>
       THEN /\ spc' = "raised"
            /\ serr' = "TypeError: os.path.join(None, ...)"
            /\ rundir' = rundir
            /\ label' = IF label = None THEN TimeLabel ELSE label
       ELSE /\ label' = IF label = None THEN TimeLabel ELSE label
            /\ rundir' = IF label = None
                         THEN Join(outdir[1], StampsLabel(TimeLabel))
                         ELSE Join(outdir[1], label)
            /\ spc' = "mkdir"
            /\ serr' = serr
    /\ UNCHANGED <<op, outdir, ncat, dirs, listing>>
    /\ UNCHANGED fitVars
    /\ UNCHANGED ringVars

\* line 40: utils.mkdir_if_needed(rundir)
GcsMkdir ==
    /\ op = "get_candy_stamps" /\ spc = "mkdir"
    /\ dirs' = dirs \cup {rundir}
    /\ spc' = "default"
    /\ UNCHANGED <<op, serr, label, outdir, rundir, ncat, listing>>
    /\ UNCHANGED fitVars
    /\ UNCHANGED ringVars

\* lines 42-43: the default of outdir
GcsDefault ==
    /\ op = "get_candy_stamps" /\ spc = "default"
    /\ outdir' = IF outdir = << >> THEN <<DefaultOutdir>> ELSE outdir
    /\ spc' = "query"
    /\ UNCHANGED <<op, serr, label, rundir, ncat, dirs, listing>>
    /\ UNCHANGED fitVars
    /\ UNCHANGED ringVars

\* lines 45-50: candy.csv and coordlist.txt are written, and the archive
\* puts one cutout per catalog row and band into rundir, numbered in order
GcsQuery ==
    /\ op = "get_candy_stamps" /\ spc = "query"
    /\ listing' = {[kind |-> "candy.csv", num |-> 0, band |-> None],
                   [kind |-> "coordlist.txt", num |-> 0, band |-> None]}
                  \cup {[kind |-> "cutout", num |-> k, band |-> None] : k \in 1..(ncat * Len(Bands))}
    /\ spc' = "rename"
    /\ UNCHANGED <<op, serr, label, outdir, rundir, ncat, dirs>>
    /\ UNCHANGED fitVars
    /\ UNCHANGED ringVars

\* lines 52-65: the cutouts, sorted by number and grouped by len(bands), are
\* renamed obj_type-num-band-rerun
GcsRename ==
    /\ op = "get_candy_stamps" /\ spc = "rename"
    /\ listing' = {f \in listing : f.kind # "cutout"}
                  \cup {[kind |-> "candy", num |-> (f.num - 1) \div Len(Bands),
                         band |-> Lower(Bands[((f.num - 1) % Len(Bands)) + 1])]
                        : f \in {g \in listing : g.kind = "cutout"}}
    /\ spc' = "done"
    /\ UNCHANGED <<op, serr, label, outdir, rundir, ncat, dirs>>
    /\ UNCHANGED fitVars
    /\ UNCHANGED ringVars

(* ----------------------- stamps.py: fit_candy ------------------------- *)

\* what sersic_fit returns: the fitter is external, and answers with r_e_err,
\* r_e and one of the solutions 0..MaxSol, whose parameters differ from one
\* another and from those of every other solution
Solution(s, e, r) ==
    [r_e_err |-> e, r_e |-> r, X0 |-> 10 * s + 1, Y0 |-> 10 * s + 2, n |-> 10 * s + 3,
     PA |-> 10 * s + 4, ell |-> 10 * s + 5, I_e |-> 10 * s + 6]
Outcomes == {Solution(s, e, r) : s \in 0..MaxSol, e \in 0..MaxErr, r \in 1..MaxRe}

\* os.listdir(indir) filtered at lines 84-85: the candidate's band files, in
\* the order the directory gives them
RECURSIVE Perms(_)
Perms(S) == IF S = {} THEN {<< >>} ELSE UNION {{<<b>> \o q : q \in Perms(S \ {b})} : b \in S}
FileLists == UNION {Perms(S) : S \in SUBSET {"g", "r", "i"}}

\* the init_params fit_candy is called with: nothing is held fixed
FreeParams == [X0 |-> << >>, Y0 |-> << >>, n |-> << >>, PA |-> << >>, ell |-> << >>,
               r_e |-> << >>, I_e |-> << >>]

\* lines 156-164: init_params of a forced fit of band j with reference b
ForcedParams(b, j) ==
    [X0 |-> <<fits[b].X0, "fixed">>, Y0 |-> <<fits[b].Y0, "fixed">>,
     n |-> <<fits[b].n, "fixed">>, PA |-> <<fits[b].PA, "fixed">>,
     ell |-> <<fits[b].ell, "fixed">>, r_e |-> <<fits[b].r_e>>, I_e |-> <<fits[j].I_e>>]

\* a < b for the quotients a[1]/a[2] and b[1]/b[2], denominators positive
QuotLess(a, b) == a[1] * b[2] < b[1] * a[2]

\* line 110: r_e_err.argmin(), the first index of the smallest element
RECURSIVE ArgMaxFrom(_, _, _)
ArgMaxFrom(q, k, m) ==
    IF k > Len(q) THEN m
    ELSE ArgMaxFrom(q, k + 1, IF QuotLess(q[m], q[k]) THEN k ELSE m)
ArgMax(q) == ArgMaxFrom(q, 2, 1)
RECURSIVE ArgMinFrom(_, _, _)
ArgMinFrom(q, k, m) ==
    IF k > Len(q) THEN m
    ELSE ArgMinFrom(q, k + 1, IF QuotLess(q[k], q[m]) THEN k ELSE m)
ArgMin(q) == ArgMinFrom(q, 2, 1)

\* lines 95-108: one pass of the loop that fits every band separately
FreeFit ==
    /\ op = "fit_candy" /\ spc = "free" /\ idx <= Len(files)
    /\ \E sersic \in Outcomes :
        /\ calls' = Append(calls, [kind |-> "free", band |-> files[idx],
                                   init_params |-> FreeParams, photo_mask |-> None])
        /\ r_e_err' = Append(r_e_err, <<sersic.r_e_err, sersic.r_e>>)
        /\ fits' = Append(fits, sersic)
        /\ mask_files' = Append(mask_files, files[idx])
    /\ idx' = idx + 1
    /\ UNCHANGED <<op, spc, serr, files, best_idx, results>>
    /\ UNCHANGED gcsVars
    /\ UNCHANGED ringVars

\* lines 109-151: the reference band and its columns; argmin of an empty
\* array raises ValueError
PickBest ==
    /\ op = "fit_candy" /\ spc = "free" /\ idx > Len(files)
    /\ IF files = << >>
       THEN /\ spc' = "raised"
            /\ serr' = "ValueError: attempt to get argmin of an empty sequence"
            /\ UNCHANGED <<best_idx, results, idx>>
       ELSE /\ best_idx' = ArgMin(r_e_err)
            /\ results' = <<files[ArgMin(r_e_err)]>>
            /\ idx' = 1
            /\ spc' = "forced"
            /\ serr' = serr
    /\ UNCHANGED <<op, files, fits, r_e_err, mask_files, calls>>
    /\ UNCHANGED gcsVars
    /\ UNCHANGED ringVars

\* line 153: the bands that get a forced fit
IsOther(i, b) == i # b

\* lines 152-192: one pass of the forced-photometry loop
ForcedFit ==
    /\ op = "fit_candy" /\ spc = "forced" /\ idx <= Len(files)
    /\ IF IsOther(idx, best_idx)
       THEN /\ calls' = Append(calls, [kind |-> "forced", band |-> files[idx],
                                       init_params |-> ForcedParams(best_idx, idx),
                                       photo_mask |-> mask_files[best_idx]])
            /\ results' = Append(results, files[idx])
       ELSE UNCHANGED <<calls, results>>
    /\ idx' = idx + 1
    /\ UNCHANGED <<op, spc, serr, files, fits, r_e_err, mask_files, best_idx>>
    /\ UNCHANGED gcsVars
    /\ UNCHANGED ringVars

\* lines 194-203: the masks are removed and the table returned
FitReturn ==
    /\ op = "fit_candy" /\ spc = "forced" /\ idx > Len(files)
    /\ mask_files' = << >>
    /\ spc' = "done"
    /\ UNCHANGED <<op, serr, files, idx, fits, r_e_err, best_idx, results, calls>>
    /\ UNCHANGED gcsVars
    /\ UNCHANGED ringVars

(* ------------------------- specifications ----------------------------- *)

RingIdle ==
    /\ entry = None /\ data = NoData /\ r_inner = 0 /\ r_outer = 0
    /\ invert = FALSE /\ pc = "idle" /\ fp = << >> /\ out = << >>
    /\ err = None /\ log = << >>

StampsIdle ==
    /\ op = None /\ spc = "idle" /\ serr = None /\ GcsIdle /\ FitIdle

InitStamps ==
    /\ RingIdle
    /\ op \in {"get_candy_stamps", "fit_candy"}
    /\ serr = None
    /\ IF op = "get_candy_stamps"
       THEN /\ spc = "rundir"
            /\ label \in {None, "run"}
            /\ outdir \in {<< >>, <<<<"out">>>>}
            /\ ncat \in 0..MaxCat
            /\ rundir = << >> /\ dirs = {} /\ listing = {}
            /\ FitIdle
       ELSE /\ spc = "free"
            /\ files \in FileLists
            /\ idx = 1
            /\ fits = << >> /\ r_e_err = << >> /\ mask_files = << >>
            /\ best_idx = 0 /\ results = << >> /\ calls = << >>
            /\ GcsIdle

vars == <<ringVars, stampVars>>

\* imtools/rmedian.py
Init == InitRing /\ StampsIdle
Next == RingCall \/ MedianFilterCall \/ Return
Spec == Init /\ [][Next]_vars

\* tasks/stamps.py
NextStamps ==
    \/ GcsRundir \/ GcsMkdir \/ GcsDefault \/ GcsQuery \/ GcsRename
    \/ FreeFit \/ PickBest \/ ForcedFit \/ FitReturn
SpecStamps == InitStamps /\ [][NextStamps]_vars

(* ------------------------------ claims -------------------------------- *)

\* the radii the data model allows: 0 <= r_inner <= r_outer
ValidRadii == 0 <= r_inner /\ r_inner <= r_outer
IntegerRadii == r_inner % Scale = 0 /\ r_outer % Scale = 0
Terminated == pc \in {"done", "raised"}
IsImage == entry = "rmedian" /\ data.ndim = 2
Constant == \A y \in 1..data.h : \A x \in 1..data.w : data.pix[y][x] = data.pix[1][1]

\* the footprint's 1-cells, its centre cell, and the squared distance (in
\* pixels) of cell c from the centre
OneCells == {c \in (1..Len(fp)) \X (1..Len(fp)) : fp[c[1]][c[2]] = 1}
Centre == (Len(fp) + 1) \div 2
CellDist2(c) == (c[1] - Centre) * (c[1] - Centre) + (c[2] - Centre) * (c[2] - Centre)

\* the image value under footprint cell c when the footprint is centred at
\* pixel (y, x), past the edge as the boundary extension supplies it
Under(y, x, c) == Extend(data, (y - 1) + (c[1] - Centre), (x - 1) + (c[2] - Centre))
Below(y, x, v) == Cardinality({c \in OneCells : Under(y, x, c) < v})
Above(y, x, v) == Cardinality({c \in OneCells : Under(y, x, c) > v})
\* v is the element of 0-based rank k of the sorted values under the 1-cells
HasRank(y, x, v, k) ==
    /\ Below(y, x, v) <= k
    /\ k < Cardinality(OneCells) - Above(y, x, v)
SameShape == Len(out) = data.h /\ \A y \in 1..data.h : Len(out[y]) = data.w

\* C1 (as stated): for every 2D image and all valid radii rmedian returns an
\* array of the image's shape whose value at each pixel is a median of the
\* image values under the footprint's 1-cells centred there (at most half of
\* them are smaller and at most half are larger).
C1_MedianForEveryValidRing ==
    (IsImage /\ ValidRadii /\ Terminated) =>
        /\ pc = "done"
        /\ SameShape
        /\ \A y \in 1..data.h : \A x \in 1..data.w :
            /\ 2 * Below(y, x, out[y][x]) <= Cardinality(OneCells)
            /\ 2 * Above(y, x, out[y][x]) <= Cardinality(OneCells)

\* C1 (amended): for every 2D image and all valid radii, if the footprint has
\* K >= 1 1-cells rmedian returns an array of the image's shape whose value at
\* each pixel is the element of 0-based rank K div 2 of the sorted image
\* values under the 1-cells centred there (0-cells never contribute); if the
\* footprint has no 1-cell, rmedian raises the rank RuntimeError and returns
\* nothing.
C1_RankMedianOverOneCells ==
    (IsImage /\ ValidRadii /\ Terminated) =>
        IF OneCells # {}
        THEN /\ pc = "done"
             /\ SameShape
             /\ \A y \in 1..data.h : \A x \in 1..data.w :
                    HasRank(y, x, out[y][x], Cardinality(OneCells) \div 2)
        ELSE pc = "raised" /\ err = RankRuntimeError /\ out = << >>

\* a 2x2 image whose four ring neighbours of pixel (1,1) hold 0,0,1,1: the
\* output there is the upper middle value 1
C1_Witness ==
    /\ IsImage /\ pc = "done" /\ ~ invert
    /\ r_inner = 0 /\ r_outer = Scale
    /\ data.h = 2 /\ data.w = 2
    /\ data.pix = <<<<0, 1>>, <<1, 1>>>>
    /\ Cardinality(OneCells) = 4
    /\ out[1][1] = 1

\* C2: with invert false, a footprint cell holds 1 iff its distance d from
\* the centre cell satisfies r_inner < d <= r_outer, and 0 otherwise
\* (distance exactly r_inner excluded, exactly r_outer included).
C2_AnnulusMembership ==
    (ValidRadii /\ ~ invert /\ pc \notin {"ring", "idle"}) =>
        /\ Len(fp) = 2 * (r_outer \div Scale) + 1
        /\ \A c \in (1..Len(fp)) \X (1..Len(fp)) :
            fp[c[1]][c[2]] =
                IF r_inner * r_inner < Scale * Scale * CellDist2(c)
                   /\ Scale * Scale * CellDist2(c) <= r_outer * r_outer
                THEN 1 ELSE 0

\* _ring(2, 5): the cells at distance exactly 2 hold 0, those at distance
\* exactly 5 hold 1
C2_Witness ==
    /\ entry = "_ring" /\ pc = "done" /\ ~ invert
    /\ r_inner = 2 * Scale /\ r_outer = 5 * Scale
    /\ fp[Centre + 2][Centre] = 0 /\ fp[Centre][Centre - 2] = 0
    /\ fp[Centre + 5][Centre] = 1 /\ fp[Centre + 3][Centre - 4] = 1
    /\ fp[Centre + 2][Centre + 1] = 1 /\ fp[Centre + 4][Centre + 4] = 0

\* C3: whenever r_outer < r_inner, _ring and rmedian fail with the assertion
\* error before any computation: no grid, no footprint, no call of the median
\* filter, no output.
C3_InvalidRadiiFailFirst ==
    (r_outer < r_inner /\ pc \notin {"ring", "idle"}) =>
        /\ pc = "raised"
        /\ err = AssertionError
        /\ log = << >>
        /\ fp = << >>
        /\ out = << >>

C3_Witness ==
    /\ entry = "rmedian" /\ data.ndim = 2
    /\ r_inner = 2 * Scale /\ r_outer = Scale
    /\ pc = "raised" /\ err = AssertionError

\* C4 (as stated): rmedian with an input that is not 2-dimensional fails with
\* the shape error before the footprint is constructed and before any median
\* filtering, and returns no output.
C4_ShapeErrorBeforeFootprint ==
    (entry = "rmedian" /\ data.ndim # 2 /\ Terminated) =>
        /\ pc = "raised"
        /\ err = ShapeRuntimeError
        /\ fp = << >>
        /\ out = << >>

\* C4 (amended): rmedian with an input that is not 2-dimensional never
\* returns an output. With r_outer >= r_inner it fails with the median
\* filter's shape RuntimeError, raised after _ring has built the footprint and
\* before any pixel is filtered; with r_outer < r_inner the assertion of _ring
\* fails first and no footprint is built.
C4_ShapeErrorAfterFootprint ==
    (entry = "rmedian" /\ data.ndim # 2 /\ pc \notin {"ring", "filter"}) =>
        /\ pc = "raised"
        /\ out = << >>
        /\ IF r_outer >= r_inner
           THEN /\ err = ShapeRuntimeError
                /\ fp # << >>
                /\ log = <<"grid", "footprint", "median_filter">>
           ELSE /\ err = AssertionError
                /\ fp = << >>
                /\ log = << >>

C4_Witness ==
    /\ entry = "rmedian" /\ data.ndim = 1 /\ data.w = 3
    /\ r_inner = 0 /\ r_outer = Scale + 1 /\ ~ invert
    /\ pc = "raised" /\ err = ShapeRuntimeError
    /\ Len(fp) = 3 /\ Cardinality(OneCells) = 8

\* C5 (as stated): for every constant 2D image and every valid ring,
\* r_inner = r_outer and r_outer = 0 included, rmedian returns the input.
C5_ConstantForEveryValidRing ==
    (IsImage /\ Constant /\ ValidRadii /\ Terminated) =>
        pc = "done" /\ out = data.pix

\* C5 (amended): for every constant 2D image and every valid ring whose
\* footprint has at least one 1-cell, rmedian returns an image equal to the
\* input; for a valid ring whose footprint has no 1-cell (r_inner = r_outer
\* with integer radii and invert false among them) it raises the rank
\* RuntimeError instead.
C5_ConstantWhenRingNonEmpty ==
    (IsImage /\ Constant /\ ValidRadii /\ Terminated) =>
        IF \E i \in 1..Len(fp) : \E j \in 1..Len(fp) : fp[i][j] = 1
        THEN pc = "done" /\ out = data.pix
        ELSE pc = "raised" /\ err = RankRuntimeError

C5_Witness ==
    /\ IsImage /\ Constant /\ pc = "done"
    /\ data.h = 2 /\ data.w = 2 /\ data.pix[1][1] = 1
    /\ r_inner = Scale /\ r_outer = 2 * Scale /\ ~ invert
    /\ out = <<<<1, 1>>, <<1, 1>>>>

\* C6: for every integer radius r >= 0, _ring(r, r) raises nothing and
\* returns a footprint of side 2r+1 whose cells are all 0 (invert false) or
\* all 1 (invert true).
C6_DegenerateRing ==
    (entry = "_ring" /\ IntegerRadii /\ r_inner = r_outer /\ pc # "ring") =>
        /\ pc \in {"return", "done"}
        /\ err = None
        /\ Len(fp) = 2 * (r_outer \div Scale) + 1
        /\ \A i \in 1..Len(fp) :
            /\ Len(fp[i]) = Len(fp)
            /\ \A j \in 1..Len(fp) : fp[i][j] = IF invert THEN 1 ELSE 0

C6_Witness ==
    /\ entry = "_ring" /\ pc = "done" /\ invert
    /\ r_inner = 3 * Scale /\ r_outer = 3 * Scale
    /\ Len(fp) = 7 /\ fp[1][1] = 1 /\ fp[4][7] = 1 /\ fp[4][4] = 1

\* C7: for all valid radii and both values of invert the footprint is square
\* and equals its 180-degree rotation and its transpose.
C7_FootprintSymmetry ==
    (ValidRadii /\ pc \notin {"ring", "idle"}) =>
        /\ Len(fp) >= 1
        /\ \A i \in 1..Len(fp) : Len(fp[i]) = Len(fp)
        /\ \A i \in 1..Len(fp) : \A j \in 1..Len(fp) :
            /\ fp[i][j] = fp[Len(fp) + 1 - i][Len(fp) + 1 - j]
            /\ fp[i][j] = fp[j][i]

C7_Witness ==
    /\ entry = "_ring" /\ pc = "done" /\ invert
    /\ r_inner = Scale + 1 /\ r_outer = 3 * Scale
    /\ Len(fp) = 7
    /\ fp[1][1] = 1 /\ fp[1][4] = 0 /\ fp[3][3] = 1 /\ fp[2][4] = 0 /\ fp[4][4] = 1

\* C10: for every non-inverted ring with integer radii 0 <= r_inner < r_outer
\* the number K of 1-cells is a positive multiple of 4, and each output pixel
\* of rmedian is the element of rank K div 2 (the upper middle) of the sorted
\* selected values, which is a value that occurs in the input image.
C10_EvenRingUpperMiddle ==
    (~ invert /\ IntegerRadii /\ 0 <= r_inner /\ r_inner < r_outer
     /\ pc \notin {"ring", "idle"}) =>
        /\ Cardinality(OneCells) > 0
        /\ Cardinality(OneCells) % 4 = 0
        /\ (IsImage /\ pc # "filter") =>
            /\ pc \in {"return", "done"}
            /\ \A y \in 1..data.h : \A x \in 1..data.w :
                /\ Below(y, x, out[y][x]) <= Cardinality(OneCells) \div 2
                /\ Above(y, x, out[y][x]) <= Cardinality(OneCells) \div 2 - 1
                /\ \E v \in 1..data.h : \E u \in 1..data.w : out[y][x] = data.pix[v][u]

\* the two middle values under the ring of pixel (1,2) are 0 and 1; the
\* output is 1, not their mean
C10_Witness ==
    /\ IsImage /\ pc = "done" /\ ~ invert
    /\ r_inner = Scale /\ r_outer = 2 * Scale
    /\ Cardinality(OneCells) = 8
    /\ data.h = 1 /\ data.w = 4
    /\ data.pix = <<<<0, 1, 1, 0>>>>
    /\ Below(1, 2, 1) = 4 /\ Above(1, 2, 0) = 4
    /\ out[1][2] = 1

Forced == {k \in 1..Len(calls) : calls[k].kind = "forced"}
\* b is a band whose free fit has the smallest r_e_err / r_e
Smallest(b) ==
    \A j \in 1..Len(fits) :
        fits[b].r_e_err * fits[j].r_e <= fits[j].r_e_err * fits[b].r_e

\* C8: fit_candy first fits every band file separately, takes as reference the
\* band of smallest r_e_err/r_e, then runs exactly one forced fit for each
\* other band and none for the reference, each with X0, Y0 and n fixed at the
\* reference fit's values; no forced fit starts before all free fits are done.
C8_FreeThenForced ==
    (op = "fit_candy") =>
        /\ \A k \in 1..Len(calls) :
            IF k <= Len(files)
            THEN calls[k].kind = "free" /\ calls[k].band = files[k]
            ELSE calls[k].kind = "forced" /\ Len(fits) = Len(files)
        /\ (spc \in {"forced", "done"}) =>
            /\ Len(calls) >= Len(files)
            /\ best_idx \in 1..Len(files)
            /\ Smallest(best_idx)
            /\ \A k \in Forced :
                /\ calls[k].band # files[best_idx]
                /\ calls[k].init_params.X0 = <<fits[best_idx].X0, "fixed">>
                /\ calls[k].init_params.Y0 = <<fits[best_idx].Y0, "fixed">>
                /\ calls[k].init_params.n = <<fits[best_idx].n, "fixed">>
        /\ (spc = "done") =>
            \A j \in 1..Len(files) :
                Cardinality({k \in Forced : calls[k].band = files[j]})
                    = IF j = best_idx THEN 0 ELSE 1

C8_Witness ==
    /\ op = "fit_candy" /\ spc = "done"
    /\ files = <<"r", "i", "g">>
    /\ best_idx = 2
    /\ fits[1].X0 # fits[2].X0 /\ fits[3].X0 # fits[2].X0
    /\ fits[1].r_e_err * fits[2].r_e > fits[2].r_e_err * fits[1].r_e
    /\ Len(calls) = 5
    /\ calls[4].band = "r" /\ calls[5].band = "g"

\* C9: outdir is optional: when it is None, with a label given or omitted,
\* get_candy_stamps does not fail and derives the run directory under the
\* default output directory os.path.join(utils.io, 'stamps').
C9_OutdirOptional ==
    (op = "get_candy_stamps" /\ outdir = << >> /\ spc # "rundir") =>
        /\ spc # "raised"
        /\ rundir \in {Join(DefaultOutdir, "run"), Join(DefaultOutdir, StampsLabel(TimeLabel))}

=============================================================================
